---- MODULE Spec2Model ----
(***************************************************************************)
(* Simple Patch Manager (spm.py): the manifest parser get_patch_info, the  *)
(* patch metadata extractor get_patch_authors and the application engine   *)
(* apply_patches, driven by main.                                          *)
(*                                                                         *)
(* Text is modelled as TLA+ strings, read one character at a time with     *)
(* SubSeq.  Python's None is the empty tuple <<>> and a present value v is *)
(* the one-element tuple <<v>>.                                            *)
(*                                                                         *)
(* Environment assumptions: git can be started (subprocess.run returns a   *)
(* CompletedProcess) and the terminal delivers a line to every input().    *)
(***************************************************************************)
EXTENDS Integers, Sequences, FiniteSets, TLC

(***************************************************************************)
(* The state of a run: main calling get_patch_info, get_patch_authors and  *)
(* apply_patches.                                                          *)
(***************************************************************************)
VARIABLES
    args,            \* the parsed command line
    os_environ,      \* os.environ, the environment of the process
    pc,              \* where the run stands
    lines_read,      \* the lines of patches.list the loop has consumed
    settings,        \* get_patch_info: settings
    patches,         \* get_patch_info: patches
    patch_set,       \* get_patch_info: patch_set
    available_settings_count,
    patchinfo,       \* main: patchinfo, None until and unless it is returned
    opened,          \* the patch files get_patch_authors has called open() on
    files_read,      \* the text of the patch files it has read, in that order
    ret,             \* get_patch_authors: ret
    patchauthors,    \* main: patchauthors, None until and unless it is returned
    i,               \* apply_patches: index of the patch of the loop, from 1
    committer_env,   \* apply_patches: committer_env
    git,             \* the git commands run so far, each with its environment
    HEAD,            \* the repository: the hash of the commit HEAD points to
    useript,         \* apply_patches: useript, the last answer of the operator
    stdout,          \* the closing message printed by main
    stderr,          \* the error messages printed
    returncode       \* exit status of the process, None while it runs

vars == <<args, os_environ, pc, lines_read, settings, patches, patch_set,
          available_settings_count, patchinfo, opened, files_read, ret,
          patchauthors, i, committer_env, git, HEAD, useript, stdout, stderr,
          returncode>>

(***************************************************************************)
(* Bounds of the model.                                                    *)
(***************************************************************************)
\* number of physical lines read from patches.list
MaxLines == 4

(***************************************************************************)
(* Characters and strings.                                                 *)
(***************************************************************************)
None == <<>>

Some(v) == <<v>>

\* the text of an exception or of a printed error: the fixed wording and the
\* values formatted into it
Msg(text, values) == [text |-> text, values |-> values]

Ch(s, n) == SubSeq(s, n, n)

Slice(s, m, n) == SubSeq(s, m, n)

Lower == {"a", "b", "c", "d", "e", "f", "g", "h", "i", "j", "k", "l", "m",
          "n", "o", "p", "q", "r", "s", "t", "u", "v", "w", "x", "y", "z"}

Upper == {"A", "B", "C", "D", "E", "F", "G", "H", "I", "J", "K", "L", "M",
          "N", "O", "P", "Q", "R", "S", "T", "U", "V", "W", "X", "Y", "Z"}

Digit == {"0", "1", "2", "3", "4", "5", "6", "7", "8", "9"}

\* \s of the re module, and what str.strip() removes
Space == {" ", "\t", "\n", "\r"}

\* \w of the re module
WordCh == Lower \cup Upper \cup Digit \cup {"_"}

\* [a-z\-]
KeyCh == Lower \cup {"-"}

\* [\w\-\.]
ValCh == WordCh \cup {"-", "."}

\* length of the longest run of characters of class C that starts at s[n]
RECURSIVE SpanLen(_, _, _)
SpanLen(s, n, C) ==
    IF n <= Len(s) /\ Ch(s, n) \in C THEN 1 + SpanLen(s, n + 1, C) ELSE 0

\* length of the longest run of characters of class C that ends at s[j]
RECURSIVE SpanLenBack(_, _, _)
SpanLenBack(s, j, C) ==
    IF j >= 1 /\ Ch(s, j) \in C THEN 1 + SpanLenBack(s, j - 1, C) ELSE 0

\* str.strip()
strip(s) ==
    LET a == SpanLen(s, 1, Space)
    IN  IF a = Len(s) THEN ""
        ELSE Slice(s, a + 1, Len(s) - SpanLenBack(s, Len(s), Space))

\* str.startswith(p)
startswith(s, p) == Len(s) >= Len(p) /\ Slice(s, 1, Len(p)) = p

\* str.endswith(p)
endswith(s, p) == Len(s) >= Len(p) /\ Slice(s, Len(s) - Len(p) + 1, Len(s)) = p

\* str.rfind(c) + 1 for a single character c: 0 when c does not occur
RECURSIVE rfind1(_, _, _)
rfind1(s, c, j) ==
    IF j = 0 THEN 0 ELSE IF Ch(s, j) = c THEN j ELSE rfind1(s, c, j - 1)

\* posixpath.split(p): (head, tail) around the last slash; trailing slashes
\* are removed from head unless head consists of slashes only
path_split(p) ==
    LET cut  == rfind1(p, "/", Len(p))
        head == Slice(p, 1, cut)
        tail == Slice(p, cut + 1, Len(p))
        k    == SpanLenBack(head, Len(head), {"/"})
    IN  [dirpath  |-> IF k = Len(head) THEN head ELSE Slice(head, 1, Len(head) - k),
         filename |-> tail]

\* str.split('/'): the components between slashes, empty ones included
RECURSIVE split_slash(_, _)
split_slash(s, from) ==
    LET n == SpanLen(s, from, {Ch(s, k) : k \in 1..Len(s)} \ {"/"})
    IN  IF from + n > Len(s) THEN <<Slice(s, from, Len(s))>>
        ELSE <<Slice(s, from, from + n - 1)>> \o split_slash(s, from + n + 1)

(***************************************************************************)
(* get_patch_info: the manifest parser.                                    *)
(***************************************************************************)
SettingKeys == <<"base-commit", "final-commit">>

\* re_info_matcher.match(l): a match anchored at the start of l only.  Each
\* quantifier is greedy and the character that must follow is outside its
\* class, so the groups are the longest runs.
re_info_matcher(l) ==
    LET k == SpanLen(l, 1, KeyCh)
        w == SpanLen(l, k + 2, Space)
        v == SpanLen(l, k + 2 + w, ValCh)
    IN  IF k = 0 \/ k + 1 > Len(l) \/ Ch(l, k + 1) # ":" \/ v = 0 THEN None
        ELSE Some([group1 |-> Slice(l, 1, k),
                   group2 |-> Slice(l, k + 2 + w, k + 1 + w + v)])

\* the manifest lines the model feeds to the parser, as they stand in the
\* file (without the line terminator)
ManifestLines ==
    { "", "# c", "base-commit: a1", "final-commit: a1", "final-commit: ignore",
      "author: x", "a.patch", "  a.patch ", "d/b.patch", "/a.patch", "a.txt",
      "d/.b.patch", "final-commit: b2 x.patch", "final-commit: HEAD" }

\* the locals of get_patch_info before the first line is read
ParserInit ==
    [settings |-> [k \in {SettingKeys[n] : n \in 1..Len(SettingKeys)} |-> None],
     patches |-> <<>>,
     patch_set |-> {},
     available_settings_count |-> 0,
     raised |-> None]

\* the keys of settings whose value is None, in the order of the dict
unavail_keys(dict) == SelectSeq(SettingKeys, LAMBDA k : dict[k] = None)

\* line 90-93: blank lines and comments are skipped
is_skipped(l) == l = "" \/ startswith(l, "#")

\* line 99: settingkey not in settings
is_unknown_setting(dict, settingkey) == settingkey \notin DOMAIN dict

\* an assigned setting is never seen as assigned
is_duplicate_setting_never(dict, settingkey) == FALSE

\* line 101: settings.get(settingkey) is not None
is_duplicate_setting(dict, settingkey) == dict[settingkey] # None

\* only a manifest with no setting at all is seen as incomplete
settings_incomplete_only_when_empty(count) == count = 0

\* line 109: available_settings_count != len(settings)
settings_incomplete(count) == count # Len(SettingKeys)

\* lines 116-117, rule 1: the directory part starts with a slash
is_absolute(l) == startswith(path_split(l).dirpath, "/")

\* line 121, rule 2: not filename.endswith('.patch')
has_bad_suffix(l) == ~endswith(path_split(l).filename, ".patch")

\* only the first component of the path is looked at
has_dot_component_first_only(l) == startswith(l, ".")

\* line 126, rule 3: not all(not comp.startswith('.') for comp in l.split('/'))
has_dot_component(l) ==
    LET comps == split_slash(l, 1)
    IN  \E n \in 1..Len(comps) : startswith(comps[n], ".")

\* no entry is ever seen as a member of patch_set
is_duplicate_patch_never(l, seen) == FALSE

\* line 131: l in patch_set
is_duplicate_patch(l, seen) == l \in seen

\* the body of the loop `for l in f` on the locals st and the raw line: the
\* locals after the body, with raised = Some(message) when it raises ValueError
ParseLine(st, raw) ==
    LET l == strip(raw)
        m == re_info_matcher(l)
        Raise(msg) == [st EXCEPT !.raised = Some(msg)]
    IN  IF is_skipped(l) THEN st
        ELSE IF m # None THEN
            LET settingkey == m[1].group1
            IN  IF is_unknown_setting(st.settings, settingkey)
                THEN Raise(Msg("Unknown setting", <<settingkey>>))
                ELSE IF is_duplicate_setting(st.settings, settingkey)
                THEN Raise(Msg("Duplicate setting for", <<settingkey>>))
                ELSE [st EXCEPT !.settings[settingkey] = Some(m[1].group2),
                                !.available_settings_count = @ + 1]
        ELSE IF settings_incomplete(st.available_settings_count)
        THEN Raise(Msg("Please fill these settings", unavail_keys(st.settings)))
        ELSE IF is_absolute(l)
        THEN Raise(Msg("Patch file location must be relative", <<>>))
        ELSE IF has_bad_suffix(l)
        THEN Raise(Msg("Patches must end with '.patch'", <<>>))
        ELSE IF has_dot_component(l)
        THEN Raise(Msg("All path components must not contain leading dots", <<>>))
        ELSE IF is_duplicate_patch(l, st.patch_set)
        THEN Raise(Msg("Duplicate instances of patch", <<l>>))
        ELSE [st EXCEPT !.patch_set = @ \cup {l},
                        !.patches = Append(@, l)]

(***************************************************************************)
(* get_patch_authors: the patch metadata extractor.  The text of a patch   *)
(* file and the names and emails taken from it are sequences of Unicode    *)
(* code points, so that a decoded name can hold any character.             *)
(***************************************************************************)
\* the printable ASCII characters of code points 32 to 95, in order
ASCII_32_95 ==
    " !\"#$%&'()*+,-./0123456789:;<=>?@ABCDEFGHIJKLMNOPQRSTUVWXYZ[\\]^_"

\* the printable ASCII characters of code points 97 to 126, in order
ASCII_97_126 == "abcdefghijklmnopqrstuvwxyz{|}~"

\* ord(c) of a printable ASCII character
Ord(c) ==
    CHOOSE n \in (32..95) \cup (97..126) :
        IF n <= 95 THEN Ch(ASCII_32_95, n - 31) = c
        ELSE Ch(ASCII_97_126, n - 96) = c

\* the code points of a string of printable ASCII characters
CP(s) == [n \in 1..Len(s) |-> Ord(Ch(s, n))]

\* a character class as a set of one-element slices of code points
CPClass(chars) == {CP(c) : c \in chars}

\* str.rstrip() removes these (space, tab, line feed, carriage return)
SpaceCP == {<<32>>, <<9>>, <<10>>, <<13>>}

\* [a-f0-9]
HexLowerCP == CPClass(Digit \cup {"a", "b", "c", "d", "e", "f"})

\* str.rstrip() of a line given as code points
rstrip_cp(s) == Slice(s, 1, Len(s) - SpanLenBack(s, Len(s), SpaceCP))

\* the literal texts of the patterns, as code points
FROM_SP == CP("From ")

HEADER_TAIL == CP(" Mon Sep 17 00:00:00 2001")

FROM_FIELD == CP("From: ")

DATE_FIELD == CP("Date: ")

SP_LT == CP(" <")

GT == CP(">")

UTF8_Q == CP("=?UTF-8?q?")

Q_EQ == CP("?=")

\* first index n >= from with s[n..n+Len(p)-1] = p scanning downwards from
\* `from`, 0 when there is none
RECURSIVE rfind_at(_, _, _)
rfind_at(s, p, from) ==
    IF from < 1 THEN 0
    ELSE IF Slice(s, from, from + Len(p) - 1) = p THEN from
    ELSE rfind_at(s, p, from - 1)

\* re_header.match(l): ^From [a-f0-9]+ Mon Sep 17 00:00:00 2001$
re_header(l) ==
    LET h == SpanLen(l, 6, HexLowerCP)
    IN  /\ startswith(l, FROM_SP)
        /\ h >= 1
        /\ Slice(l, 6 + h, Len(l)) = HEADER_TAIL

\* re_author.match(s): ^From: (.*) <(.*)>$ ; the first group is greedy, so
\* it ends at the last " <" that still leaves room for the closing ">"
re_author(s) ==
    LET p == rfind_at(s, SP_LT, Len(s) - 2)
    IN  IF ~startswith(s, FROM_FIELD) \/ ~endswith(s, GT) \/ p < 7
        THEN None
        ELSE Some([group1 |-> Slice(s, 7, p - 1),
                   group2 |-> Slice(s, p + 2, Len(s) - 1)])

\* re_name_utf8_detect.match(name): ^=\?UTF-8\?q\?(.+)\?=$
re_name_utf8_detect(name) ==
    IF /\ Len(name) >= 13
       /\ startswith(name, UTF8_Q)
       /\ endswith(name, Q_EQ)
    THEN Some([group1 |-> Slice(name, 11, Len(name) - 2)])
    ELSE None

\* str.encode('utf8') of one code point
encode_cp(c) ==
    IF c < 128 THEN <<c>>
    ELSE IF c < 2048 THEN <<192 + (c \div 64), 128 + (c % 64)>>
    ELSE IF c < 65536
    THEN <<224 + (c \div 4096), 128 + ((c \div 64) % 64), 128 + (c % 64)>>
    ELSE <<240 + (c \div 262144), 128 + ((c \div 4096) % 64),
           128 + ((c \div 64) % 64), 128 + (c % 64)>>

\* str.encode('utf8')
RECURSIVE encode_utf8(_)
encode_utf8(s) ==
    IF s = <<>> THEN <<>> ELSE encode_cp(Head(s)) \o encode_utf8(Tail(s))

\* the upper-case hexadecimal digits are not taken for digits
HexVal_no_upper(b) ==
    IF b >= 48 /\ b <= 57 THEN b - 48
    ELSE IF b >= 97 /\ b <= 102 THEN b - 87
    ELSE -1

\* the value of a hexadecimal digit given as a byte, -1 for any other byte
HexVal(b) ==
    IF b >= 48 /\ b <= 57 THEN b - 48
    ELSE IF b >= 97 /\ b <= 102 THEN b - 87
    ELSE IF b >= 65 /\ b <= 70 THEN b - 55
    ELSE -1

\* re_name_utf8_sub.sub(re_name_utf8_sub_fn, b): every non-overlapping
\* =XX, found left to right, becomes the byte 0xXX
RECURSIVE re_name_utf8_sub(_)
re_name_utf8_sub(b) ==
    IF b = <<>> THEN <<>>
    ELSE IF /\ Len(b) >= 3
            /\ b[1] = 61
            /\ HexVal(b[2]) >= 0
            /\ HexVal(b[3]) >= 0
    THEN <<16 * HexVal(b[2]) + HexVal(b[3])>> \o re_name_utf8_sub(SubSeq(b, 4, Len(b)))
    ELSE <<b[1]>> \o re_name_utf8_sub(Tail(b))

IsCont(b, n) == n <= Len(b) /\ b[n] >= 128 /\ b[n] <= 191

\* bytes.decode('utf8'), strict: Some(code points), or None where Python
\* raises UnicodeDecodeError (a bad lead or continuation byte, an overlong
\* form, a surrogate, a value above U+10FFFF, a truncated sequence)
RECURSIVE decode_utf8(_)
decode_utf8(b) ==
    IF b = <<>> THEN Some(<<>>)
    ELSE
      LET b1 == b[1]
          n  == IF b1 < 128 THEN 1
                ELSE IF b1 >= 194 /\ b1 <= 223 THEN 2
                ELSE IF b1 >= 224 /\ b1 <= 239 THEN 3
                ELSE IF b1 >= 240 /\ b1 <= 244 THEN 4
                ELSE 0
          ok == /\ n > 0
                /\ \A k \in 2..n : IsCont(b, k)
                /\ (b1 = 224 => b[2] >= 160)
                /\ (b1 = 237 => b[2] <= 159)
                /\ (b1 = 240 => b[2] >= 144)
                /\ (b1 = 244 => b[2] <= 143)
          c  == IF n = 1 THEN b1
                ELSE IF n = 2 THEN (b1 - 192) * 64 + (b[2] - 128)
                ELSE IF n = 3
                THEN (b1 - 224) * 4096 + (b[2] - 128) * 64 + (b[3] - 128)
                ELSE (b1 - 240) * 262144 + (b[2] - 128) * 4096
                     + (b[3] - 128) * 64 + (b[4] - 128)
          rest == IF ok THEN decode_utf8(SubSeq(b, n + 1, Len(b))) ELSE None
      IN  IF ok /\ rest # None THEN Some(<<c>> \o rest[1]) ELSE None

\* ''.join(lines)
RECURSIVE join(_)
join(lines) == IF lines = <<>> THEN <<>> ELSE Head(lines) \o join(Tail(lines))

\* the loop over the lines of one patch file from line n on: the
\* authorlines collected, or the ValueError the loop raises
RECURSIVE scan_lines(_, _, _)
scan_lines(file, n, authorlines) ==
    IF n > Len(file) THEN [raised |-> None, authorlines |-> authorlines]
    ELSE
      LET l == rstrip_cp(file[n])
      IN  IF n = 1
          THEN IF ~re_header(l)
               THEN [raised |-> Some(Msg("Invalid header", <<>>)),
                     authorlines |-> authorlines]
               ELSE scan_lines(file, n + 1, authorlines)
          ELSE IF n = 2 /\ ~startswith(l, FROM_FIELD)
          THEN [raised |-> Some(Msg("'From' field not found", <<>>)),
                authorlines |-> authorlines]
          ELSE IF startswith(l, DATE_FIELD)
          THEN [raised |-> None, authorlines |-> authorlines]
          ELSE scan_lines(file, n + 1, Append(authorlines, l))

\* the email is decoded in the way the name is
patch_author_decodes_email(file) ==
    LET scan        == scan_lines(file, 1, <<>>)
        authormatch == re_author(join(scan.authorlines))
        Decoded(text) ==
            LET word == re_name_utf8_detect(text)
            IN  IF word = None THEN Some(text)
                ELSE decode_utf8(re_name_utf8_sub(encode_utf8(word[1].group1)))
    IN  IF scan.raised # None THEN [raised |-> scan.raised, author |-> None]
        ELSE IF authormatch = None
        THEN [raised |-> Some(Msg("Error reading patch's author", <<>>)),
              author |-> None]
        ELSE IF Decoded(authormatch[1].group1) = None
                \/ Decoded(authormatch[1].group2) = None
        THEN [raised |-> Some(Msg("UnicodeDecodeError", <<>>)), author |-> None]
        ELSE [raised |-> None,
              author |-> Some(<<Decoded(authormatch[1].group1)[1],
                                Decoded(authormatch[1].group2)[1]>>)]

\* the body of the try block for one patch file, given as its lines: the
\* (name, email) stored in ret[patchidx], or the ValueError raised
patch_author(file) ==
    LET scan        == scan_lines(file, 1, <<>>)
        authormatch == re_author(join(scan.authorlines))
    IN  IF scan.raised # None THEN [raised |-> scan.raised, author |-> None]
        ELSE IF authormatch = None
        THEN [raised |-> Some(Msg("Error reading patch's author", <<>>)),
              author |-> None]
        ELSE
          LET authorname      == authormatch[1].group1
              authoremail     == authormatch[1].group2
              authorname_utf8 == re_name_utf8_detect(authorname)
              authorname_bin  ==
                  re_name_utf8_sub(encode_utf8(authorname_utf8[1].group1))
          IN  IF authorname_utf8 = None
              THEN [raised |-> None, author |-> Some(<<authorname, authoremail>>)]
              ELSE IF decode_utf8(authorname_bin) = None
              THEN [raised |-> Some(Msg("UnicodeDecodeError", <<>>)),
                    author |-> None]
              ELSE [raised |-> None,
                    author |-> Some(<<decode_utf8(authorname_bin)[1], authoremail>>)]

(***************************************************************************)
(* The inputs of a run.                                                    *)
(***************************************************************************)
\* line 0 of a well-formed patch file
HeaderLine == CP("From 0a1b2c Mon Sep 17 00:00:00 2001")

\* the patch files the model lets get_patch_authors find, each the sequence
\* of its lines with the line terminator as line feed (10)
PatchFiles ==
    { <<HeaderLine \o <<10>>, CP("From: Jane Doe <jane@x.com>") \o <<10>>,
        CP("Date: Mon") \o <<10>>, CP("Subject: s") \o <<10>>>>,
      <<HeaderLine \o <<10>>, CP("From: =?UTF-8?q?Jos=C3=A9?=") \o <<10>>,
        CP(" <a@b.com>") \o <<10>>, CP("Date: Mon") \o <<10>>>>,
      <<HeaderLine \o <<10>>, CP("From: =?UTF-8?q?=C3?= <c@d.com>") \o <<10>>,
        CP("Date: Mon") \o <<10>>>>,
      <<HeaderLine \o <<10>>, CP("From: jane@x.com") \o <<10>>, CP("Date: Mon") \o <<10>>>>,
      <<HeaderLine \o <<10>>, CP("Date: Mon") \o <<10>>>>,
      <<CP("diff --git a/f b/f") \o <<10>>>> }

\* the commit hashes of the repository
Hashes == {"a1", "b2"}

\* what `git rev-parse HEAD` writes to its standard output when it fails:
\* the argument as given when HEAD does not resolve, nothing when git stops
\* before that
HeadFailureOutputs == {CP("HEAD") \o <<10>>, <<>>}

\* exit statuses of a git command
ReturnCodes == {0, 128}

\* what the operator may type at the conflict prompt
Answers == {"A", "a", "C", "c", "continue"}

\* values of the GIT_COMMITTER_NAME / GIT_COMMITTER_EMAIL variables in the
\* environment the program is started in
Environs ==
    { [GIT_COMMITTER_NAME |-> Some(CP("Op")), GIT_COMMITTER_EMAIL |-> Some(CP("op@x.com"))] }

\* --branchname
branchname == "patched"

\* chr(n) for line feed, tab, carriage return and printable ASCII
Chr(n) ==
    IF n = 10 THEN "\n" ELSE IF n = 9 THEN "\t" ELSE IF n = 13 THEN "\r"
    ELSE IF n <= 95 THEN Ch(ASCII_32_95, n - 31)
    ELSE Ch(ASCII_97_126, n - 96)

\* bytes.decode('ascii'): Some(text), or None where Python raises
\* UnicodeDecodeError (a byte above 127)
RECURSIVE decode_ascii(_)
decode_ascii(b) ==
    IF b = <<>> THEN Some("")
    ELSE IF b[1] >= 128 \/ decode_ascii(Tail(b)) = None THEN None
    ELSE Some(Chr(b[1]) \o decode_ascii(Tail(b))[1])

(***************************************************************************)
(* The start of a run and its end.                                         *)
(***************************************************************************)
parser_vars == <<lines_read, settings, patches, patch_set, available_settings_count>>

authors_vars == <<opened, files_read, ret>>

engine_vars == <<i, committer_env, git, HEAD, useript>>

Init ==
    /\ args \in [abort_on_conflict : BOOLEAN, checkpatches : BOOLEAN,
                 repo : {None, Some("repo")}]
    /\ os_environ \in Environs
    /\ pc = "get_patch_info"
    /\ lines_read = <<>>
    /\ settings = ParserInit.settings
    /\ patches = ParserInit.patches
    /\ patch_set = ParserInit.patch_set
    /\ available_settings_count = ParserInit.available_settings_count
    /\ patchinfo = None
    /\ opened = <<>>
    /\ files_read = <<>>
    /\ ret = <<>>
    /\ patchauthors = None
    /\ i = 0
    /\ committer_env = None
    /\ git = <<>>
    /\ HEAD = "c0"
    /\ useript = None
    /\ stdout = <<>>
    /\ stderr = <<>>
    /\ returncode = None

\* the error is printed but main does not return
Fail_no_return(e) ==
    /\ stderr' = Append(stderr, e)
    /\ UNCHANGED <<pc, returncode, stdout>>

\* main returns code after printing the error e (an exception caught and
\* reported, or a message of main itself)
Fail(e) ==
    /\ pc' = "exit"
    /\ stderr' = Append(stderr, e)
    /\ returncode' = Some(1)
    /\ stdout' = stdout

\* main returns 0 after printing text
Succeed(text) ==
    /\ pc' = "exit"
    /\ stdout' = Append(stdout, text)
    /\ returncode' = Some(0)
    /\ stderr' = stderr

\* what printerr writes for an exception caught while reading a file
Printed(prefix, file, ex) == [prefix |-> prefix, file |-> file, ex |-> ex]

(***************************************************************************)
(* get_patch_info, lines 84-145, and main's return on its failure.         *)
(***************************************************************************)
\* open() of patches.list raises OSError
ManifestOpenError ==
    /\ pc = "get_patch_info"
    /\ lines_read = <<>>
    /\ Fail(Printed("Cannot open", "patches.list", Msg("OSError", <<>>)))
    /\ UNCHANGED <<args, os_environ, parser_vars, patchinfo, authors_vars,
                   patchauthors, engine_vars>>

\* one iteration of `for l in f` on the next line of the file
ReadLine ==
    /\ pc = "get_patch_info"
    /\ Len(lines_read) < MaxLines
    /\ \E raw \in ManifestLines :
        LET st == ParseLine([settings |-> settings, patches |-> patches,
                             patch_set |-> patch_set,
                             available_settings_count |-> available_settings_count,
                             raised |-> None], raw)
        IN  /\ lines_read' = Append(lines_read, raw)
            /\ settings' = st.settings
            /\ patches' = st.patches
            /\ patch_set' = st.patch_set
            /\ available_settings_count' = st.available_settings_count
            /\ IF st.raised # None
               THEN Fail(Printed("Error in", "patches.list", st.raised[1]))
               ELSE UNCHANGED <<pc, stdout, stderr, returncode>>
    /\ UNCHANGED <<args, os_environ, patchinfo, authors_vars, patchauthors,
                   engine_vars>>

\* the file is exhausted: return settings, patches
ManifestEnd ==
    /\ pc = "get_patch_info"
    /\ patchinfo' = Some([settings |-> settings, patchlist |-> patches])
    /\ ret' = [n \in 1..Len(patches) |-> None]
    /\ pc' = "get_patch_authors"
    /\ UNCHANGED <<args, os_environ, parser_vars, opened, files_read,
                   patchauthors, engine_vars, stdout, stderr, returncode>>

(***************************************************************************)
(* get_patch_authors, lines 160-208, and main's lines 46-55.               *)
(***************************************************************************)
\* the patchlist get_patch_authors and apply_patches are called with
patchlist == patchinfo[1].patchlist

\* patch_author of every patch file of the model, computed once
PatchAuthorOf == [file \in PatchFiles |-> patch_author(file)]

\* open() of the next patch file raises OSError
PatchOpenError ==
    /\ pc = "get_patch_authors"
    /\ Len(opened) < Len(patchlist)
    /\ opened' = Append(opened, patchlist[Len(opened) + 1])
    /\ Fail(Printed("Cannot open", patchlist[Len(opened) + 1], Msg("OSError", <<>>)))
    /\ UNCHANGED <<args, os_environ, parser_vars, patchinfo, files_read, ret,
                   patchauthors, engine_vars>>

\* one iteration of the loop over patchlist: the next patch file is read,
\* its text being one of the files whose patch_author the table AuthorOf holds
ReadPatchOf(AuthorOf) ==
    /\ pc = "get_patch_authors"
    /\ Len(opened) < Len(patchlist)
    /\ \E file \in DOMAIN AuthorOf :
        LET patchidx == Len(opened) + 1
            r        == AuthorOf[file]
        IN  /\ opened' = Append(opened, patchlist[patchidx])
            /\ files_read' = Append(files_read, file)
            /\ IF r.raised # None
               THEN /\ Fail(Printed("Error in", patchlist[patchidx], r.raised[1]))
                    /\ ret' = ret
               ELSE /\ ret' = [ret EXCEPT ![patchidx] = r.author]
                    /\ UNCHANGED <<pc, stdout, stderr, returncode>>
    /\ UNCHANGED <<args, os_environ, parser_vars, patchinfo, patchauthors,
                   engine_vars>>

\* the iteration on one of the patch files of the model
ReadPatch == ReadPatchOf(PatchAuthorOf)

\* get_patch_authors returns ret; main then stops for --checkpatches or for
\* a missing repo argument, or calls apply_patches
AuthorsReturn ==
    /\ pc = "get_patch_authors"
    /\ Len(opened) = Len(patchlist)
    /\ patchauthors' = Some(ret)
    /\ IF args.checkpatches
       THEN Succeed("All patches appears to be in correct format")
       ELSE IF args.repo = None
       THEN Fail(Printed("", "", Msg("Please specify repository to be patched!", <<>>)))
       ELSE /\ pc' = "apply_patches"
            /\ UNCHANGED <<stdout, stderr, returncode>>
    /\ UNCHANGED <<args, os_environ, parser_vars, patchinfo, authors_vars,
                   engine_vars>>

(***************************************************************************)
(* apply_patches, lines 210-260, and main's lines 57-68.                   *)
(***************************************************************************)
base_commit_hash == patchinfo[1].settings["base-commit"]

target_commit_hash == patchinfo[1].settings["final-commit"]

\* a conflict is put to the operator whatever the flag says
raise_on_conflict_never(abort_on_conflict) == FALSE

\* the flag is read inverted
raise_on_conflict_inverted(abort_on_conflict) == ~abort_on_conflict

\* line 239: if abort_on_conflict
raise_on_conflict(abort_on_conflict) == abort_on_conflict

\* the lower-case answer is forgotten
is_abort_upper_only(answer) == answer \in {"A"}

\* line 245: useript in ('A', 'a')
is_abort(answer) == answer \in {"A", "a"}

\* every answer that is not an abort is taken for `continue`
is_continue_any(answer) == TRUE

\* line 247: useript in ('C', 'c')
is_continue(answer) == answer \in {"C", "c"}

\* a missing value is taken for the sentinel
skip_verification_on_none(target) == target = None

\* line 253: target_commit_hash == 'ignore'
skip_verification(target) == target = Some("ignore")

\* the comparison is inverted
hash_differs_inverted(resulting, target) == Some(resulting) = target

\* line 258: resulting_commit_hash != target_commit_hash
hash_differs(resulting, target) == Some(resulting) # target

\* a git command as subprocess.run starts it
GitRun(op, cmdargs, env, rc, out) ==
    [op |-> op, args |-> cmdargs, env |-> env, returncode |-> rc, stdout |-> out]

\* os.chdir(repodir) raises OSError
ChdirError ==
    /\ pc = "apply_patches"
    /\ Fail(Printed("Error opening repository", "", Msg("OSError", <<>>)))
    /\ UNCHANGED <<args, os_environ, parser_vars, patchinfo, authors_vars,
                   patchauthors, engine_vars>>

\* os.chdir(repodir) succeeds; the lists have the same length (line 213)
Chdir ==
    /\ pc = "apply_patches"
    /\ Len(patchlist) = Len(patchauthors[1])
    /\ pc' = "checkout"
    /\ UNCHANGED <<args, os_environ, parser_vars, patchinfo, authors_vars,
                   patchauthors, engine_vars, stdout, stderr, returncode>>

\* the exit status of git checkout is not looked at
Checkout_ignores_status ==
    /\ pc = "checkout"
    /\ IF base_commit_hash = None
       THEN /\ Fail(Printed("Traceback", "", Msg("TypeError", <<>>)))
            /\ UNCHANGED engine_vars
       ELSE \E rc \in ReturnCodes :
            /\ git' = Append(git, GitRun("checkout -b",
                                  <<branchname, base_commit_hash[1]>>, os_environ, rc, None))
            /\ committer_env' = Some(os_environ)
            /\ HEAD' = IF rc = 0 THEN base_commit_hash[1] ELSE HEAD
            /\ i' = 1
            /\ pc' = "loop"
            /\ UNCHANGED <<useript, stdout, stderr, returncode>>
    /\ UNCHANGED <<args, os_environ, parser_vars, patchinfo, authors_vars,
                   patchauthors>>

\* git checkout -b branchname base_commit_hash.  With base_commit_hash None
\* subprocess.run raises TypeError before it starts git; main does not
\* catch it and the process ends with a traceback.
Checkout ==
    /\ pc = "checkout"
    /\ IF base_commit_hash = None
       THEN /\ Fail(Printed("Traceback", "", Msg("TypeError", <<>>)))
            /\ UNCHANGED engine_vars
       ELSE \E rc \in ReturnCodes :
            /\ git' = Append(git, GitRun("checkout -b",
                                  <<branchname, base_commit_hash[1]>>, os_environ, rc, None))
            /\ IF rc # 0
               THEN /\ Fail(Printed("", "", Msg("Error creating branch", <<>>)))
                    /\ UNCHANGED <<i, committer_env, HEAD, useript>>
               ELSE /\ committer_env' = Some(os_environ)
                    /\ HEAD' = base_commit_hash[1]
                    /\ i' = 1
                    /\ pc' = "loop"
                    /\ UNCHANGED <<useript, stdout, stderr, returncode>>
    /\ UNCHANGED <<args, os_environ, parser_vars, patchinfo, authors_vars,
                   patchauthors>>

\* committer_env is os.environ itself, not a copy of it
Am_shared_environ ==
    /\ pc = "loop"
    /\ i <= Len(patchlist)
    /\ LET patchname == patchlist[i]
           author    == patchauthors[1][i][1]
           env       == [committer_env[1] EXCEPT
                            !.GIT_COMMITTER_NAME = Some(author[1]),
                            !.GIT_COMMITTER_EMAIL = Some(author[2])]
       IN  /\ committer_env' = Some(env)
           /\ os_environ' = env
           /\ \E rc \in ReturnCodes :
                /\ git' = Append(git, GitRun("am", <<patchname>>, env, rc, None))
                /\ IF rc = 0
                   THEN /\ i' = i + 1
                        /\ HEAD' \in Hashes
                        /\ UNCHANGED <<pc, stdout, stderr, returncode>>
                   ELSE IF raise_on_conflict(args.abort_on_conflict)
                   THEN /\ Fail(Printed("", "", Msg("Error applying patch cleanly", <<patchname>>)))
                        /\ UNCHANGED <<i, HEAD>>
                   ELSE /\ pc' = "input"
                        /\ UNCHANGED <<i, HEAD, stdout, stderr, returncode>>
    /\ UNCHANGED <<args, parser_vars, patchinfo, authors_vars, patchauthors,
                   useript>>

\* one iteration of the loop over patchlist up to the end of git am; a
\* patch that applies makes a commit, whose hash is for git to compute
Am ==
    /\ pc = "loop"
    /\ i <= Len(patchlist)
    /\ LET patchname == patchlist[i]
           author    == patchauthors[1][i][1]
           env       == [committer_env[1] EXCEPT
                            !.GIT_COMMITTER_NAME = Some(author[1]),
                            !.GIT_COMMITTER_EMAIL = Some(author[2])]
       IN  /\ committer_env' = Some(env)
           /\ \E rc \in ReturnCodes :
                /\ git' = Append(git, GitRun("am", <<patchname>>, env, rc, None))
                /\ IF rc = 0
                   THEN /\ i' = i + 1
                        /\ HEAD' \in Hashes
                        /\ UNCHANGED <<pc, stdout, stderr, returncode>>
                   ELSE IF raise_on_conflict(args.abort_on_conflict)
                   THEN /\ Fail(Printed("", "", Msg("Error applying patch cleanly", <<patchname>>)))
                        /\ UNCHANGED <<i, HEAD>>
                   ELSE /\ pc' = "input"
                        /\ UNCHANGED <<i, HEAD, stdout, stderr, returncode>>
    /\ UNCHANGED <<args, os_environ, parser_vars, patchinfo, authors_vars,
                   patchauthors, useript>>

\* after `continue` the loop runs git am on the same patch again
Input_retries ==
    /\ pc = "input"
    /\ \E answer \in Answers :
        /\ useript' = Some(answer)
        /\ IF is_abort(answer)
           THEN /\ Fail(Printed("", "", Msg("User aborted the conflict resolution operation", <<>>)))
                /\ UNCHANGED <<i, HEAD>>
           ELSE IF is_continue(answer)
           THEN /\ i' = i
                /\ pc' = "loop"
                /\ HEAD' \in Hashes
                /\ UNCHANGED <<stdout, stderr, returncode>>
           ELSE UNCHANGED <<i, pc, HEAD, stdout, stderr, returncode>>
    /\ UNCHANGED <<args, os_environ, parser_vars, patchinfo, authors_vars,
                   patchauthors, committer_env, git>>

\* one iteration of `while True`: the operator answers the prompt, having
\* left the repository as it was or committed a resolution
Input ==
    /\ pc = "input"
    /\ \E answer \in Answers :
        /\ useript' = Some(answer)
        /\ IF is_abort(answer)
           THEN /\ Fail(Printed("", "", Msg("User aborted the conflict resolution operation", <<>>)))
                /\ UNCHANGED <<i, HEAD>>
           ELSE IF is_continue(answer)
           THEN /\ i' = i + 1
                /\ pc' = "loop"
                /\ HEAD' \in Hashes
                /\ UNCHANGED <<stdout, stderr, returncode>>
           ELSE UNCHANGED <<i, pc, HEAD, stdout, stderr, returncode>>
    /\ UNCHANGED <<args, os_environ, parser_vars, patchinfo, authors_vars,
                   patchauthors, committer_env, git>>

\* what git rev-parse HEAD returns: the hash of HEAD and status 0, or a
\* failure
RevParseResults ==
    {[returncode |-> 0, stdout |-> CP(HEAD) \o <<10>>]}
    \cup [returncode : ReturnCodes \ {0}, stdout : HeadFailureOutputs]

\* the loop is over: lines 252-260, then main's return
Verify ==
    /\ pc = "loop"
    /\ i > Len(patchlist)
    /\ IF skip_verification(target_commit_hash)
       THEN /\ Succeed("All patches applied cleanly!")
            /\ git' = git
       ELSE \E sp \in RevParseResults :
            /\ git' = Append(git, GitRun("rev-parse", <<"HEAD">>, os_environ,
                                         sp.returncode, Some(sp.stdout)))
            /\ IF decode_ascii(sp.stdout) = None
               THEN Fail(Printed("", "", Msg("UnicodeDecodeError", <<>>)))
               ELSE LET resulting_commit_hash == strip(decode_ascii(sp.stdout)[1])
                    IN  IF hash_differs(resulting_commit_hash, target_commit_hash)
                        THEN Fail(Printed("", "",
                                 Msg("Resulting commit hash differs from the expected hash",
                                     <<Some(resulting_commit_hash), target_commit_hash>>)))
                        ELSE Succeed("All patches applied cleanly!")
    /\ UNCHANGED <<args, os_environ, parser_vars, patchinfo, authors_vars,
                   patchauthors, i, committer_env, HEAD, useript>>

Next ==
    \/ ManifestOpenError
    \/ ReadLine
    \/ ManifestEnd
    \/ PatchOpenError
    \/ ReadPatch
    \/ AuthorsReturn
    \/ ChdirError
    \/ Chdir
    \/ Checkout
    \/ Am
    \/ Input
    \/ Verify

Spec == Init /\ [][Next]_vars

\* a step of the program itself: every step but the answer of the operator
ProgramStep ==
    \/ ManifestOpenError
    \/ ReadLine
    \/ ManifestEnd
    \/ PatchOpenError
    \/ ReadPatch
    \/ AuthorsReturn
    \/ ChdirError
    \/ Chdir
    \/ Checkout
    \/ Am
    \/ Verify

\* the program is sequential and every call it makes returns, so it takes
\* its next step whenever it has one; nothing is assumed of the operator
FairSpec == Spec /\ WF_vars(ProgramStep)

(***************************************************************************)
(* get_patch_authors alone, from the call of line 45 on, on patch files    *)
(* whose From field is written in every way the sets below combine.        *)
(***************************************************************************)
\* author names as they stand in a From field: plain, encoded words (upper
\* and lower case hexadecimal, a truncated sequence, a payload that holds a
\* character above U+007F, an =XX that is not hexadecimal), text that only
\* resembles an encoded word, a name with a character above U+007F, no name
FromNames ==
    { CP("Jane Doe"),
      CP("=?UTF-8?q?Jos=C3=A9?="),
      CP("=?UTF-8?q?=C3?="),
      CP("=?UTF-8?q?=e2=82=ac?="),
      CP("=?UTF-8?q?a=4Gb=3?="),
      UTF8_Q \o <<233>> \o Q_EQ,
      CP("Jos=C3=A9"),
      CP("=?utf-8?Q?Jos=C3=A9?="),
      <<74, 111, 115, 233>>,
      <<>> }

\* emails as they stand between the angle brackets
FromEmails ==
    { CP("jane@x.com"),
      CP("a=C3=A9@b.com"),
      CP("=?UTF-8?q?=C3=A9?="),
      <<233, 64, 98>>,
      <<>> }

\* a From field: its name, its email, and whether the email stands on a
\* continuation line
FromFields == [name : FromNames, email : FromEmails, folded : BOOLEAN]

\* the lines of the patch file that git format-patch writes for the field
FromFile(field) ==
    IF field.folded
    THEN << HeaderLine \o <<10>>,
            FROM_FIELD \o field.name \o <<10>>,
            SP_LT \o field.email \o GT \o <<10>>,
            DATE_FIELD \o CP("Mon") \o <<10>> >>
    ELSE << HeaderLine \o <<10>>,
            FROM_FIELD \o field.name \o SP_LT \o field.email \o GT \o <<10>>,
            DATE_FIELD \o CP("Mon") \o <<10>> >>

FromFiles == {FromFile(field) : field \in FromFields}

\* patch_author of each of these files, computed once
FromAuthorOf == [file \in FromFiles |-> patch_author(file)]

\* the loop `for l in f` over all the lines of a manifest
RECURSIVE ParseAll(_, _)
ParseAll(st, lines) ==
    IF lines = <<>> THEN st ELSE ParseAll(ParseLine(st, Head(lines)), Tail(lines))

\* manifests that get_patch_info accepts, with one and with two patches
AcceptedManifests ==
    { <<"base-commit: a1", "final-commit: ignore", "a.patch">>,
      <<"base-commit: a1", "final-commit: ignore", "a.patch", "d/b.patch">> }

\* main at line 45: get_patch_info has returned the content of the manifest
AuthorsInit ==
    /\ args \in [abort_on_conflict : BOOLEAN, checkpatches : BOOLEAN,
                 repo : {None, Some("repo")}]
    /\ os_environ \in Environs
    /\ pc = "get_patch_authors"
    /\ \E manifest \in AcceptedManifests :
        LET st == ParseAll(ParserInit, manifest)
        IN  /\ lines_read = manifest
            /\ settings = st.settings
            /\ patches = st.patches
            /\ patch_set = st.patch_set
            /\ available_settings_count = st.available_settings_count
            /\ patchinfo = Some([settings |-> st.settings, patchlist |-> st.patches])
            /\ ret = [n \in 1..Len(st.patches) |-> None]
    /\ opened = <<>>
    /\ files_read = <<>>
    /\ patchauthors = None
    /\ i = 0
    /\ committer_env = None
    /\ git = <<>>
    /\ HEAD = "c0"
    /\ useript = None
    /\ stdout = <<>>
    /\ stderr = <<>>
    /\ returncode = None

\* the iteration on a patch file with one of the From fields
ReadFromField == ReadPatchOf(FromAuthorOf)

AuthorsNext ==
    \/ PatchOpenError
    \/ ReadFromField
    \/ AuthorsReturn

AuthorsSpec == AuthorsInit /\ [][AuthorsNext]_vars

(***************************************************************************)
(* Properties of the application engine.                                   *)
(***************************************************************************)
\* the loop over patchlist has run to its end
AllApplied == patchinfo # None /\ i > Len(patchlist)

\* the last git command run
LastGit == git[Len(git)]

\* the indices of the git commands that are a git am that failed
FailedAm == {k \in 1..Len(git) : git[k].op = "am" /\ git[k].returncode # 0}

\* the git am commands run so far are those of the first n patches, in order
AmArePrefix(n) ==
    /\ Len(git) >= 1 /\ git[1].op = "checkout -b"
    /\ \A k \in 2..Len(git) :
          \/ git[k].op = "am" /\ k - 1 <= n /\ git[k].args = <<patchlist[k - 1]>>
          \/ git[k].op = "rev-parse" /\ k = Len(git)

\* C1: when final-commit is not 'ignore' and the loop has gone through every
\* patch, the run has read HEAD and it succeeds exactly when the text read
\* (the hash of HEAD when git rev-parse succeeded) equals final-commit;
\* otherwise it fails with the error that carries the hash read and the
\* expected hash.
C1_SucceedsIffHeadIsFinal ==
    (pc = "exit" /\ AllApplied /\ target_commit_hash # Some("ignore")) =>
        /\ git # <<>>
        /\ LastGit.op = "rev-parse"
        /\ LET read == strip(decode_ascii(LastGit.stdout[1])[1])
           IN  /\ LastGit.returncode = 0 => read = HEAD
               /\ IF Some(read) = target_commit_hash
                  THEN returncode = Some(0) /\ stderr = <<>>
                  ELSE /\ returncode = Some(1)
                       /\ stderr = <<Printed("", "",
                             Msg("Resulting commit hash differs from the expected hash",
                                 <<Some(read), target_commit_hash>>))>>

\* a run of two patches, the first continued after a conflict, that ends
\* in success because HEAD is the final commit
C1_Witness ==
    /\ pc = "exit" /\ AllApplied
    /\ Len(patchlist) = 2
    /\ FailedAm = {2}
    /\ target_commit_hash = Some("a1")
    /\ HEAD = "a1"
    /\ returncode = Some(0)

\* C2: when final-commit is 'ignore' no git rev-parse is ever run, and a run
\* whose loop has gone through every patch ends in success whatever HEAD is.
C2_IgnoreSkipsVerification ==
    (patchinfo # None /\ target_commit_hash = Some("ignore")) =>
        /\ \A k \in 1..Len(git) : git[k].op # "rev-parse"
        /\ (pc = "loop" /\ AllApplied) => ENABLED Verify
        /\ (pc = "exit" /\ AllApplied) => returncode = Some(0) /\ stderr = <<>>

\* a successful run with final-commit 'ignore' whose HEAD is b2 after two
\* patches
C2_Witness ==
    /\ pc = "exit" /\ AllApplied
    /\ target_commit_hash = Some("ignore")
    /\ Len(patchlist) = 2
    /\ HEAD = "b2"
    /\ returncode = Some(0)

\* C3: under abort_on_conflict the operator is never prompted, and a git am
\* that fails is the last git command of the run, which has ended in
\* failure in the same step: no later patch, no git rev-parse.
C3_AbortOnConflictHalts ==
    args.abort_on_conflict =>
        /\ pc # "input"
        /\ useript = None
        /\ \A k \in FailedAm :
              /\ k = Len(git)
              /\ pc = "exit"
              /\ returncode = Some(1)
              /\ i = k - 1
              /\ AmArePrefix(i)

\* the first of two patches fails to apply under abort_on_conflict
C3_Witness ==
    /\ args.abort_on_conflict
    /\ patchinfo # None
    /\ Len(patchlist) = 2
    /\ FailedAm = {2}
    /\ pc = "exit"

\* C4: without abort_on_conflict a git am that fails leads to the prompt
\* with the index unchanged.  A step that leaves the prompt is either an
\* answer C or c, which runs no command and moves to the next index (whose
\* step is the git am of that patch, or the verification after the last
\* patch), or an answer A or a, which ends the run in failure with the git
\* am commands being those of the patches up to the current one.  A step
\* that stays at the prompt has another answer, and an ended run does not
\* move.
C4_PromptTransitions ==
    [][ /\ (pc = "loop" /\ git' # git /\ git'[Len(git')].op = "am"
            /\ git'[Len(git')].returncode # 0 /\ ~args.abort_on_conflict)
           => (pc' = "input" /\ i' = i)
        /\ (pc = "input" /\ pc' # "input") =>
              \/ /\ useript' \in {Some("C"), Some("c")}
                 /\ pc' = "loop"
                 /\ i' = i + 1
                 /\ git' = git
              \/ /\ useript' \in {Some("A"), Some("a")}
                 /\ pc' = "exit"
                 /\ returncode' = Some(1)
                 /\ git' = git
                 /\ i' = i
                 /\ AmArePrefix(i)
        /\ (pc = "input" /\ pc' = "input" /\ useript' # useript) =>
              useript' \notin {Some("C"), Some("c"), Some("A"), Some("a")}
        /\ (pc = "loop" /\ git' # git) =>
              /\ Len(git') = Len(git) + 1
              /\ IF i <= Len(patchlist)
                 THEN /\ git'[Len(git')].op = "am"
                      /\ git'[Len(git')].args = <<patchlist[i]>>
                 ELSE git'[Len(git')].op = "rev-parse"
        /\ pc = "exit" => UNCHANGED vars
      ]_vars

\* the first of two patches failed, the operator answered C or c, and the
\* second patch has been applied
C4_Witness ==
    /\ ~args.abort_on_conflict
    /\ patchinfo # None
    /\ Len(patchlist) = 2
    /\ useript \in {Some("C"), Some("c")}
    /\ Len(git) = 3
    /\ git[2].returncode # 0
    /\ git[3].op = "am"
    /\ git[3].args = <<patchlist[2]>>

\* an error of get_patch_info or get_patch_authors about the content of a
\* file has been printed
ValidationFailed ==
    \E k \in 1..Len(stderr) : stderr[k].prefix = "Error in"

\* C5: once a validation error of the manifest or of a patch file has been
\* printed the run has ended in failure, no git command has been run and
\* the repository is as it was.
C5_ValidationNeverPartiallyApplies ==
    ValidationFailed =>
        /\ pc = "exit"
        /\ returncode = Some(1)
        /\ git = <<>>
        /\ HEAD = "c0"

\* the second of two patch files fails validation
C5_Witness ==
    /\ ValidationFailed
    /\ Len(opened) = 2
    /\ stderr[1].file = opened[2]

(***************************************************************************)
(* Properties of the manifest parser, stated on the history of the lines   *)
(* it has read.                                                            *)
(***************************************************************************)
\* the line is neither blank, nor a comment, nor a setting line: the parser
\* takes it for a patch entry
IsEntryLine(raw) ==
    /\ ~is_skipped(strip(raw))
    /\ re_info_matcher(strip(raw)) = None

\* the line is taken for a setting line
IsSettingLine(raw) ==
    /\ ~is_skipped(strip(raw))
    /\ re_info_matcher(strip(raw)) # None

\* the lines of the model by kind, the entry and the key they hold; each
\* table is computed once
EntryLines == {raw \in ManifestLines : IsEntryLine(raw)}

SettingLines == {raw \in ManifestLines : IsSettingLine(raw)}

EntryOf == [raw \in EntryLines |-> strip(raw)]

KeyOf == [raw \in SettingLines |-> re_info_matcher(strip(raw))[1].group1]

\* the parser raised on the last line it read
ManifestRejected ==
    /\ lines_read # <<>>
    /\ pc = "exit"
    /\ patchinfo = None

\* the error the parser printed is the message text
RejectedWith(text) ==
    /\ ManifestRejected
    /\ returncode = Some(1)
    /\ Len(stderr) = 1
    /\ stderr[1].prefix = "Error in"
    /\ stderr[1].file = "patches.list"
    /\ stderr[1].ex.text = text

\* the lines the parser read without raising
AcceptedLines ==
    IF ManifestRejected THEN SubSeq(lines_read, 1, Len(lines_read) - 1)
    ELSE lines_read

\* the same patch entry string stands on two lines read so far
SameEntryTwice ==
    \E a, b \in 1..Len(lines_read) :
        /\ a < b
        /\ lines_read[a] \in EntryLines
        /\ lines_read[b] \in EntryLines
        /\ EntryOf[lines_read[a]] = EntryOf[lines_read[b]]

\* C6: a manifest in which the same patch entry string appears twice is
\* rejected by the parser: the run has ended in failure without a result of
\* get_patch_info, and no patch file has been opened.
C6_DuplicateEntryRejectedBeforeOpen ==
    SameEntryTwice =>
        /\ ManifestRejected
        /\ returncode = Some(1)
        /\ opened = <<>>
        /\ ret = <<>>

\* the second occurrence of an accepted entry, written with other blanks, is
\* the line that is rejected
C6_Witness ==
    /\ SameEntryTwice
    /\ RejectedWith("Duplicate instances of patch")
    /\ stderr[1].ex.values = <<"a.patch">>
    /\ patches = <<"a.patch">>
    /\ lines_read[Len(lines_read) - 1] # lines_read[Len(lines_read)]

\* C7: whenever get_patch_info has returned a result, manifests with no patch
\* entry included, both base-commit and final-commit of the returned settings
\* are populated.
C7_AcceptedSettingsPopulated ==
    patchinfo # None =>
        \A n \in 1..Len(SettingKeys) :
            patchinfo[1].settings[SettingKeys[n]] # None

\* the entry is relative, ends with the suffix and has no component that
\* starts with a dot
WellFormedEntry(e) ==
    /\ Len(e) >= Len(".patch")
    /\ Ch(e, 1) # "/"
    /\ Ch(e, 1) # "."
    /\ \A n \in 1..(Len(e) - 1) : Ch(e, n) = "/" => Ch(e, n + 1) # "."
    /\ Slice(e, Len(e) - Len(".patch") + 1, Len(e)) = ".patch"

\* the well-formed ones among the entries of the model
WellFormedEntries == {e \in {EntryOf[raw] : raw \in EntryLines} : WellFormedEntry(e)}

\* the entries of the lines the parser accepted, in the order of the lines
AcceptedEntries ==
    LET e == SelectSeq(AcceptedLines, LAMBDA raw : raw \in EntryLines)
    IN  [n \in 1..Len(e) |-> EntryOf[e[n]]]

\* C8: after every line processed the patch list holds well-formed entries
\* only, no string twice, and it is the sequence of the entries accepted so
\* far in the order of their lines.
C8_PatchListInvariants ==
    /\ \A n \in 1..Len(patches) : patches[n] \in WellFormedEntries
    /\ \A a, b \in 1..Len(patches) : patches[a] = patches[b] => a = b
    /\ patches = AcceptedEntries
    /\ patch_set = {patches[n] : n \in 1..Len(patches)}

\* two entries were accepted, in an order that is not the sorted one, and
\* the list was returned
C8_Witness ==
    /\ patches = <<"d/b.patch", "a.patch">>
    /\ Len(lines_read) = 4
    /\ patchinfo # None
    /\ patchlist = patches

\* the keys of the settings that are still unassigned, in the order of the
\* settings
MissingKeys ==
    SelectSeq(<<"base-commit", "final-commit">>, LAMBDA k : settings[k] = None)

\* C9: when a patch entry line has been read while a setting is unassigned,
\* that line is the last one read, the parse has failed with the error that
\* names exactly the unassigned keys, and the patch list is empty; hence no
\* entry is in the list while a setting is unassigned.
C9_EntryBeforeSettingsFails ==
    /\ MissingKeys # <<>> => patches = <<>>
    /\ \A n \in 1..Len(lines_read) :
        lines_read[n] \in EntryLines /\ MissingKeys # <<>> =>
            /\ n = Len(lines_read)
            /\ RejectedWith("Please fill these settings")
            /\ stderr[1].ex.values = MissingKeys

\* an entry line was read after final-commit alone had been assigned: the
\* error names base-commit and nothing else
C9_Witness ==
    /\ Len(lines_read) = 2
    /\ lines_read[1] \in SettingLines
    /\ lines_read[2] \in EntryLines
    /\ settings["final-commit"] # None
    /\ RejectedWith("Please fill these settings")
    /\ stderr[1].ex.values = <<"base-commit">>

\* C10: in every step of the parser an assigned setting keeps its value, and
\* a setting line whose key is not one of the two settings, or names a
\* setting already assigned, ends the parse in failure with the settings and
\* the patch list as they were.
C10_SettingsAssignedOnce ==
    [][/\ \A n \in 1..Len(SettingKeys) :
            settings[SettingKeys[n]] # None =>
                settings'[SettingKeys[n]] = settings[SettingKeys[n]]
       /\ Len(lines_read') > Len(lines_read) =>
            LET raw == lines_read'[Len(lines_read')]
            IN  (/\ raw \in SettingLines
                 /\ \/ KeyOf[raw] \notin {"base-commit", "final-commit"}
                    \/ settings[KeyOf[raw]] # None) =>
                    /\ pc' = "exit"
                    /\ returncode' = Some(1)
                    /\ patchinfo' = None
                    /\ Len(stderr') = 1
                    /\ stderr'[1].ex.text \in {"Unknown setting",
                                               "Duplicate setting for"}
                    /\ stderr'[1].ex.values = <<KeyOf[raw]>>
                    /\ settings' = settings
                    /\ patches' = patches]_vars

\* a setting line that names an assigned setting with another value was read
\* after a patch entry and rejected
C10_Witness ==
    /\ Len(lines_read) = 4
    /\ lines_read[3] \in EntryLines
    /\ lines_read[4] = "final-commit: ignore"
    /\ settings["final-commit"] = Some("a1")
    /\ patches # <<>>
    /\ RejectedWith("Duplicate setting for")

(***************************************************************************)
(* Properties of the patch metadata extractor, stated on the files it has  *)
(* read and the records it has stored.                                     *)
(***************************************************************************)
\* the From field a patch file was written from
FieldOf == [file \in FromFiles |-> CHOOSE field \in FromFields : FromFile(field) = file]

\* the name has the form =?UTF-8?q?PAYLOAD?= with a payload of one character
\* at least
IsEncodedWord(name) ==
    /\ Len(name) > 12
    /\ SubSeq(name, 1, 10) = <<61, 63, 85, 84, 70, 45, 56, 63, 113, 63>>
    /\ SubSeq(name, Len(name) - 1, Len(name)) = <<63, 61>>

\* what the encoded words among the names stand for: the characters whose
\* UTF-8 bytes the payload gives once every =XX is read as the byte 0xXX, and
\* None where these bytes are not UTF-8
DecodedWord ==
    [name \in {w \in FromNames : IsEncodedWord(w)} |->
        CASE name = CP("=?UTF-8?q?Jos=C3=A9?=") -> Some(<<74, 111, 115, 233>>)
          [] name = CP("=?UTF-8?q?=C3?=")       -> None
          [] name = CP("=?UTF-8?q?=e2=82=ac?=") -> Some(<<8364>>)
          [] name = CP("=?UTF-8?q?a=4Gb=3?=")   -> Some(CP("a=4Gb=3"))
          [] name = UTF8_Q \o <<233>> \o Q_EQ   -> Some(<<233>>)]

\* the record stored for the n-th patch file
NameOf(n) == ret[n][1][1]

EmailOf(n) == ret[n][1][2]

\* get_patch_authors has failed on the n-th patch file, the last it read
FailedOn(n) ==
    /\ n = Len(files_read)
    /\ ret[n] = None
    /\ pc = "exit"
    /\ returncode = Some(1)
    /\ patchauthors = None
    /\ Len(stderr) = 1
    /\ stderr[1].prefix = "Error in"
    /\ stderr[1].file = opened[n]

\* C11: the name stored for a patch file is the decoded payload when the name
\* of the From field is an encoded word, and that name unchanged otherwise;
\* a payload that is not UTF-8 makes get_patch_authors fail on that file.
C11_NameDecoded ==
    \A n \in 1..Len(files_read) :
        LET name == FieldOf[files_read[n]].name
        IN  IF IsEncodedWord(name)
            THEN IF DecodedWord[name] = None THEN FailedOn(n)
                 ELSE ret[n] # None /\ NameOf(n) = DecodedWord[name][1]
            ELSE ret[n] # None => NameOf(n) = name

\* Jos=C3=A9 was decoded to José for the first patch and the second patch
\* failed on a truncated sequence
C11_Witness ==
    /\ Len(files_read) = 2
    /\ FieldOf[files_read[1]].name = CP("=?UTF-8?q?Jos=C3=A9?=")
    /\ NameOf(1) = <<74, 111, 115, 233>>
    /\ FieldOf[files_read[2]].name = CP("=?UTF-8?q?=C3?=")
    /\ FailedOn(2)

\* C12: the email stored for a patch file is the text between the angle
\* brackets of its From field as it stands there, whether the name was
\* decoded or not and whatever the email looks like.
C12_EmailVerbatim ==
    \A n \in 1..Len(files_read) :
        ret[n] # None => EmailOf(n) = FieldOf[files_read[n]].email

\* the name of the first patch was decoded and its email, which has the
\* shape of an encoded word, was kept; the email of the second holds =XX
\* sequences and stands on a continuation line
C12_Witness ==
    /\ Len(files_read) = 2
    /\ NameOf(1) = <<74, 111, 115, 233>>
    /\ FieldOf[files_read[1]].name # NameOf(1)
    /\ EmailOf(1) = CP("=?UTF-8?q?=C3=A9?=")
    /\ FieldOf[files_read[2]].folded
    /\ ret[2] # None
    /\ EmailOf(2) = CP("a=C3=A9@b.com")

\* C13: a patch file whose From field has an empty name or an empty email
\* makes get_patch_authors fail on that file, and no record stored has an
\* empty name or an empty email.
C13_NoEmptyAuthor ==
    \A n \in 1..Len(files_read) :
        /\ (\/ FieldOf[files_read[n]].name = <<>>
            \/ FieldOf[files_read[n]].email = <<>>) => FailedOn(n)
        /\ ret[n] # None => NameOf(n) # <<>> /\ EmailOf(n) # <<>>

(***************************************************************************)
(* Further properties of the application engine.                           *)
(***************************************************************************)
\* C14: the git am of the patch at index k runs with the committer name and
\* email of the author record at index k, every other git command runs with
\* the environment of the process, and that environment is the one the
\* program was started in.
C14_CommitterIdentityPerPatch ==
    /\ os_environ \in Environs
    /\ \A k \in 1..Len(git) :
        IF git[k].op = "am"
        THEN /\ k - 1 \in 1..Len(patchlist)
             /\ git[k].args = <<patchlist[k - 1]>>
             /\ git[k].env.GIT_COMMITTER_NAME = Some(patchauthors[1][k - 1][1][1])
             /\ git[k].env.GIT_COMMITTER_EMAIL = Some(patchauthors[1][k - 1][1][2])
        ELSE git[k].env = os_environ

\* two patches of different authors were applied and HEAD was read
C14_Witness ==
    /\ Len(git) = 4
    /\ git[2].op = "am"
    /\ git[3].op = "am"
    /\ git[4].op = "rev-parse"
    /\ git[2].env.GIT_COMMITTER_NAME # git[3].env.GIT_COMMITTER_NAME
    /\ git[2].env.GIT_COMMITTER_EMAIL # git[3].env.GIT_COMMITTER_EMAIL
    /\ git[3].env # os_environ

\* apply_patches has raised the error of this text and main has printed it
EngineFailed(text) ==
    \E k \in 1..Len(stderr) : stderr[k].prefix = "" /\ stderr[k].ex.text = text

\* the run has ended in failure and the git command run last is of this kind
EndedAfter(op) ==
    /\ pc = "exit"
    /\ returncode = Some(1)
    /\ Len(stderr) = 1
    /\ git # <<>>
    /\ LastGit.op = op

\* C15: a failure of the engine ends the run, and the git command that made
\* it fail is the last command of the run: no git am follows a failed branch
\* creation, nothing follows a failed git am that was not put to the
\* operator or that the operator aborted, nothing follows the reading of
\* HEAD; the engine runs no command but checkout -b, am and rev-parse.
C15_FailuresAreTerminal ==
    /\ \A k \in 1..Len(git) :
        /\ git[k].op \in {"checkout -b", "am", "rev-parse"}
        /\ git[k].op = "checkout -b" => k = 1
        /\ git[k].op = "rev-parse" => k = Len(git) /\ pc = "exit"
        /\ git[k].op = "checkout -b" /\ git[k].returncode # 0 =>
                /\ Len(git) = 1
                /\ EndedAfter("checkout -b")
                /\ EngineFailed("Error creating branch")
                /\ HEAD = "c0"
    /\ EngineFailed("Error creating branch") =>
            EndedAfter("checkout -b") /\ Len(git) = 1
    /\ EngineFailed("Error applying patch cleanly") =>
            /\ EndedAfter("am")
            /\ LastGit.returncode # 0
            /\ useript = None
    /\ EngineFailed("User aborted the conflict resolution operation") =>
            /\ EndedAfter("am")
            /\ LastGit.returncode # 0
            /\ useript \in {Some("A"), Some("a")}
    /\ EngineFailed("Resulting commit hash differs from the expected hash") =>
            EndedAfter("rev-parse")

\* the operator aborted at the conflict of the second patch: the commit of
\* the first patch is where HEAD stays
C15_Witness ==
    /\ EngineFailed("User aborted the conflict resolution operation")
    /\ Len(git) = 3
    /\ git[2].returncode = 0
    /\ git[3].returncode # 0
    /\ HEAD \in Hashes
    /\ i = 2

\* the git command a step has run
NewGit == git'[Len(git')]

\* the loop stands before a git command with the step of the patch before it
\* over: git am returned success, or it failed and the operator answered
\* `continue` at its prompt
PreviousStepOver ==
    /\ pc = "loop"
    /\ \/ Len(git) = 1 /\ LastGit.op = "checkout -b" /\ LastGit.returncode = 0
       \/ /\ Len(git) > 1
          /\ LastGit.op = "am"
          /\ \/ LastGit.returncode = 0
             \/ /\ ~args.abort_on_conflict
                /\ useript \in {Some("C"), Some("c")}

\* C16: every step that runs a git command appends one command; a git am is
\* run on the patch that follows those already applied, in list order, once
\* the step of the patch before it is over; HEAD is read once the step of the
\* last patch is over; a run that ends in success has run git am on every
\* patch of the list, once and in order.
C16_AppliedInOrderOnce ==
    [][/\ git' # git =>
            /\ git' = Append(git, NewGit)
            /\ NewGit.op = "am" =>
                    /\ PreviousStepOver
                    /\ Len(git) <= Len(patchlist)
                    /\ NewGit.args = <<patchlist[Len(git)]>>
            /\ NewGit.op = "rev-parse" =>
                    /\ PreviousStepOver \/ (patchlist = <<>> /\ Len(git) = 1)
                    /\ Len(git) = Len(patchlist) + 1
       /\ (pc = "loop" /\ returncode' = Some(0)) =>
            /\ PreviousStepOver \/ (patchlist = <<>> /\ Len(git) = 1)
            /\ \A n \in 1..Len(patchlist) :
                    /\ git'[n + 1].op = "am"
                    /\ git'[n + 1].args = <<patchlist[n]>>
            /\ Cardinality({k \in 1..Len(git') : git'[k].op = "am"}) = Len(patchlist)
      ]_vars

\* a run of two patches ended in success: the first did not apply and the
\* operator answered `continue`, the second applied, HEAD was read
C16_Witness ==
    /\ returncode = Some(0)
    /\ Len(git) = 4
    /\ git[2].op = "am" /\ git[2].returncode # 0
    /\ git[3].op = "am" /\ git[3].returncode = 0
    /\ git[3].args = <<patchlist[2]>>
    /\ git[4].op = "rev-parse"
    /\ useript \in {Some("C"), Some("c")}

\* the answers the prompt takes for `abort` or `continue`
ValidAnswers == {Some("A"), Some("a"), Some("C"), Some("c")}

\* C17: at the conflict prompt an answer that is neither an abort nor a
\* continue leaves the run at the prompt with the same patch index, the same
\* git commands run, the same repository and nothing printed; and the prompt
\* takes a further answer however many it has been given.
C17_InvalidInputReprompts ==
    /\ [](pc = "input" => ENABLED Input)
    /\ [][(pc = "input" /\ useript' \notin ValidAnswers) =>
            /\ pc' = "input"
            /\ i' = i
            /\ git' = git
            /\ HEAD' = HEAD
            /\ committer_env' = committer_env
            /\ os_environ' = os_environ
            /\ stdout' = stdout
            /\ stderr' = stderr
            /\ returncode' = None
         ]_vars

\* the operator has typed the word continue at the prompt of the second
\* patch, after a valid answer at the prompt of the first
C17_Witness ==
    /\ pc = "input"
    /\ useript = Some("continue")
    /\ i = 2
    /\ Len(git) = 3
    /\ git[2].returncode # 0
    /\ returncode = None

\* C18: the prompt is never reached with abort_on_conflict, and every run
\* either ends or stays at the prompt for ever from some point on; hence a
\* run in which the operator leaves every prompt ends.
C18_EndsUnlessAtPrompt ==
    /\ [](args.abort_on_conflict => pc # "input")
    /\ (<>(pc = "exit") \/ <>[](pc = "input"))

\* the run stands at the prompt of the second patch
C18_Witness ==
    /\ pc = "input"
    /\ ~args.abort_on_conflict
    /\ i = 2
    /\ returncode = None

\* C19: a run in which git rev-parse HEAD exited with a failure status does
\* not end in success, whatever the command wrote to its standard output.
C19_FailedRevParseNeverSucceeds ==
    \A k \in 1..Len(git) :
        git[k].op = "rev-parse" /\ git[k].returncode # 0 => returncode # Some(0)

\* the line as a whole is key, a colon, blanks and value
IsWholeSetting(l, key, value) ==
    /\ Len(l) >= Len(key) + 1 + Len(value)
    /\ Slice(l, 1, Len(key) + 1) = key \o ":"
    /\ Slice(l, Len(l) - Len(value) + 1, Len(l)) = value
    /\ \A n \in (Len(key) + 2)..(Len(l) - Len(value)) : Ch(l, n) \in Space

\* C20: the value a setting holds is the entire text that follows the colon
\* and the blanks of a line read from the manifest: no line with further
\* text after a key: value prefix has assigned its setting a part of it.
C20_SettingLineMatchesWhole ==
    \A k \in 1..Len(SettingKeys) :
        settings[SettingKeys[k]] # None =>
            \E n \in 1..Len(lines_read) :
                IsWholeSetting(strip(lines_read[n]), SettingKeys[k],
                               settings[SettingKeys[k]][1])

====
